---------------------------- MODULE Spec2Model ----------------------------
(***************************************************************************)
(* A model of src/IPAddr.h: the IPAddr value (16 bytes, IPv6 or            *)
(* v4-to-v6-mapped) and the IPPrefix value (a masked IPAddr and a bit      *)
(* length relative to the full 128 bits).                                  *)
(*                                                                         *)
(* An address is the byte array in6.s6_addr, a sequence of 16 numbers in   *)
(* 0..255, index 1 being s6_addr[0].  A string is a sequence of            *)
(* one-character strings.                                                  *)
(*                                                                         *)
(* The bodies of Mask, AsString, Init, the IPPrefix constructors and the   *)
(* value of v4_mapped_prefix live in IPAddr.cc, which is not among the     *)
(* sources; they are modelled from the design document.                    *)
(***************************************************************************)
EXTENDS Integers, Sequences, FiniteSets, TLC

VARIABLES
    addr,    \* the IPAddr object the last operation produced (in6.s6_addr)
    prev,    \* the operand of the last operation: the object as it was
             \* before Mask, the source of a copy or an assignment, the raw
             \* buffer given to a constructor, the object whose AsString()
             \* is parsed; <<>> when it had none
    op,      \* the last operation on addr
    arg,     \* its numeric argument (top_bits_to_keep), or 0
    text,    \* the string held: what AsString() returned, or a literal
    objs,    \* three IPAddr objects x, y, z that are compared
    pfx,     \* two IPPrefix objects p, q: [prefix |-> in6, length |-> 0..255]
    pop      \* the last operation on a prefix: its name, its target, its
             \* source object (or constructor argument) and that one's length

vars == <<addr, prev, op, arg, text, objs, pfx, pop>>

---------------------------------------------------------------------------
(* Bounds of the model.                                                    *)

\* how many of the 4-byte buffers of V4Buffers are given to the constructors
NumV4Inputs == 4
\* how many of the 16-byte buffers of V6Buffers are given to the constructors
NumV6Inputs == 6
\* how many of the addresses of PrefixAddrList are given to the IPPrefix
\* constructor
NumPrefixAddrs == 4
\* how many of the lengths of Lens4 (for an IPv4 address) and of Lens6 (for
\* an IPv6 address) are given to the IPPrefix constructor
NumLens == 4
\* how many of the bit counts of MaskArgList are given to Mask
NumMaskArgs == 8

---------------------------------------------------------------------------
(* Bytes and bits.                                                         *)

\* sizeof(in6_addr): the bytes of in6.s6_addr
AddrBytes == 16

\* the length of v4_mapped_prefix
MappedPrefixBytes == 12

Pow2(k) == 2 ^ k

RECURSIVE Zeros(_)
Zeros(k) == IF k = 0 THEN <<>> ELSE <<0>> \o Zeros(k - 1)

\* top 96 bits of a v4-mapped address, ::ffff:0:0/96
v4_mapped_prefix == Zeros(10) \o <<255, 255>>

\* bit i (0 is the most significant bit of s6_addr[0]) of the 128 bits
Bit(a, i) == (a[(i \div 8) + 1] \div Pow2(7 - (i % 8))) % 2

\* htonl on a little-endian host: the four bytes of a word are reversed
Htonl(w) == <<w[4], w[3], w[2], w[1]>>

---------------------------------------------------------------------------
(* IPAddr.                                                                 *)

\* IPAddr(): memset(in6.s6_addr, 0, 16)
IPAddrDefault == Zeros(AddrBytes)

\* IPAddr(const in4_addr&): the mapped prefix, then the four bytes of s_addr
IPAddrIn4(in4) == v4_mapped_prefix \o in4

\* IPAddr(const in6_addr&) and IPAddr(const IPAddr&): in6(other.in6)
IPAddrCopy(other) == other

\* IPAddr::operator=: in6 = other.in6
IPAddrAssign(self, other) == other

\* IPAddr(Family, const uint32_t* bytes, ByteOrder)
IPAddrBytes(fam, bytes, order) ==
    IF fam = "IPv4"
    THEN v4_mapped_prefix \o
         (IF order = "Host" THEN Htonl(SubSeq(bytes, 1, 4)) ELSE SubSeq(bytes, 1, 4))
    ELSE IF order = "Host"
         THEN Htonl(SubSeq(bytes, 1, 4)) \o Htonl(SubSeq(bytes, 5, 8)) \o
              Htonl(SubSeq(bytes, 9, 12)) \o Htonl(SubSeq(bytes, 13, 16))
         ELSE SubSeq(bytes, 1, 16)

\* family() comparing too few bytes of the mapped prefix
familyShortCompare(a) ==
    IF SubSeq(a, 1, 10) = SubSeq(v4_mapped_prefix, 1, 10) THEN "IPv4" ELSE "IPv6"

\* family(): memcmp(in6.s6_addr, v4_mapped_prefix, 12) == 0
family(a) ==
    IF SubSeq(a, 1, MappedPrefixBytes) = v4_mapped_prefix THEN "IPv4" ELSE "IPv6"

\* IsLoopback()
IsLoopback(a) ==
    IF family(a) = "IPv4"
    THEN a[13] = 127
    ELSE (\A i \in 1..15 : a[i] = 0) /\ a[16] = 1

\* IsMulticast()
IsMulticast(a) ==
    IF family(a) = "IPv4" THEN a[13] = 224 ELSE a[1] = 255

\* IsBroadcast() without the test of the family
IsBroadcastNoFamily(a) ==
    a[13] = 255 /\ a[14] = 255 /\ a[15] = 255 /\ a[16] = 255

\* IsBroadcast()
IsBroadcast(a) ==
    IF family(a) = "IPv4"
    THEN a[13] = 255 /\ a[14] = 255 /\ a[15] = 255 /\ a[16] = 255
    ELSE FALSE

\* memcmp(s1, s2, n): the sign of the first differing pair of unsigned bytes
memcmp(s1, s2, n) ==
    LET diff == {i \in 1..n : s1[i] # s2[i]}
    IN  IF diff = {} THEN 0
        ELSE LET k == CHOOSE i \in diff : \A j \in diff : i <= j
             IN  IF s1[k] < s2[k] THEN -1 ELSE 1

\* operator==(IPAddr, IPAddr)
AddrEq(addr1, addr2) == memcmp(addr1, addr2, AddrBytes) = 0

\* operator< with a memcmp over the mapped prefix's length
AddrLessPrefixOnly(addr1, addr2) == memcmp(addr1, addr2, MappedPrefixBytes) < 0

\* operator<(IPAddr, IPAddr)
AddrLess(addr1, addr2) == memcmp(addr1, addr2, AddrBytes) < 0

\* byte i (1..16) of Mask(n): the bytes past the boundary are zeroed, the
\* byte the boundary falls in keeps its top bits
MaskByte(b, i, n) ==
    IF 8 * i <= n THEN b
    ELSE IF 8 * (i - 1) >= n THEN 0
    ELSE (b \div Pow2(8 * i - n)) * Pow2(8 * i - n)

\* Mask() zeroing the whole byte the boundary falls in
MaskWholeBytes(a, n) ==
    [i \in 1..AddrBytes |-> IF 8 * i <= n THEN a[i] ELSE 0]

\* IPAddr::Mask(top_bits_to_keep), 0 <= top_bits_to_keep <= 128
Mask(a, n) ==
    [i \in 1..AddrBytes |-> MaskByte(a[i], i, n)]

---------------------------------------------------------------------------
(* Text conversion: AsString() and Init(s).                                *)

DigitChars ==
    <<"0", "1", "2", "3", "4", "5", "6", "7", "8", "9",
      "a", "b", "c", "d", "e", "f">>

UpperHexChars == <<"A", "B", "C", "D", "E", "F">>

\* a decimal octet, without leading zeros
RECURSIVE DecString(_)
DecString(v) ==
    IF v < 10 THEN <<DigitChars[v + 1]>>
    ELSE DecString(v \div 10) \o <<DigitChars[(v % 10) + 1]>>

\* a 16-bit group in lowercase hex, without leading zeros
RECURSIVE HexString(_)
HexString(v) ==
    IF v < 16 THEN <<DigitChars[v + 1]>>
    ELSE HexString(v \div 16) \o <<DigitChars[(v % 16) + 1]>>

\* the eight 16-bit groups of the 16 bytes
Groups(a) == [i \in 1..8 |-> 256 * a[2 * i - 1] + a[2 * i]]

\* the number of consecutive all-zero groups of g from group i on
RECURSIVE RunLen(_, _)
RunLen(g, i) ==
    IF i > 8 \/ g[i] # 0 THEN 0 ELSE 1 + RunLen(g, i + 1)

LongestRun(g) ==
    LET lens == {RunLen(g, i) : i \in 1..8}
    IN  CHOOSE m \in lens : \A k \in lens : k <= m

\* where the run that "::" replaces starts: the leftmost of the longest runs
\* of two or more zero groups; 0 when there is none
CompressStart(g) ==
    IF LongestRun(g) < 2 THEN 0
    ELSE CHOOSE s \in 1..8 :
            /\ RunLen(g, s) = LongestRun(g)
            /\ \A t \in 1..(s - 1) : RunLen(g, t) < LongestRun(g)

\* groups i..j in hex, separated by colons
RECURSIVE JoinHex(_, _, _)
JoinHex(g, i, j) ==
    IF i > j THEN <<>>
    ELSE IF i = j THEN HexString(g[i])
    ELSE HexString(g[i]) \o <<":">> \o JoinHex(g, i + 1, j)

DottedString(b) ==
    DecString(b[1]) \o <<".">> \o DecString(b[2]) \o <<".">> \o
    DecString(b[3]) \o <<".">> \o DecString(b[4])

ColonHexString(a) ==
    LET g == Groups(a)
        s == CompressStart(g)
    IN  IF s = 0 THEN JoinHex(g, 1, 8)
        ELSE JoinHex(g, 1, s - 1) \o <<":", ":">> \o
             JoinHex(g, s + LongestRun(g), 8)

\* IPAddr::AsString(): dotted for IPv4, compressed hex for IPv6
AsString(a) ==
    IF family(a) = "IPv4" THEN DottedString(SubSeq(a, 13, 16))
    ELSE ColonHexString(a)

\* the value of a digit character in the given base, -1 when it is none
DigitValue(c, base) ==
    IF \E v \in 1..base : DigitChars[v] = c
    THEN (CHOOSE v \in 1..base : DigitChars[v] = c) - 1
    ELSE IF base = 16 /\ \E v \in 1..6 : UpperHexChars[v] = c
    THEN (CHOOSE v \in 1..6 : UpperHexChars[v] = c) + 9
    ELSE -1

\* the number the digits of tok spell after acc, -1 when one is no digit
RECURSIVE DigitsValue(_, _, _)
DigitsValue(tok, base, acc) ==
    IF tok = <<>> THEN acc
    ELSE IF DigitValue(Head(tok), base) < 0 THEN -1
    ELSE DigitsValue(Tail(tok), base, acc * base + DigitValue(Head(tok), base))

\* the number a token of 1..maxLen digits spells, -1 when it is malformed
\* (syntax) or above limit (range)
ParseNumber(tok, base, maxLen, limit) ==
    IF Len(tok) = 0 \/ Len(tok) > maxLen THEN -1
    ELSE IF DigitsValue(tok, base, 0) > limit THEN -1
    ELSE DigitsValue(tok, base, 0)

\* the tokens of s between the separators, cur being the token under way
RECURSIVE Split(_, _, _)
Split(s, sep, cur) ==
    IF s = <<>> THEN <<cur>>
    ELSE IF Head(s) = sep THEN <<cur>> \o Split(Tail(s), sep, <<>>)
    ELSE Split(Tail(s), sep, Append(cur, Head(s)))

Contains(s, c) == \E i \in 1..Len(s) : s[i] = c

\* the four octets of a dotted quad; <<-1>> when it is malformed
ParseQuad(s) ==
    LET toks == Split(s, ".", <<>>)
        vals == [i \in 1..Len(toks) |-> ParseNumber(toks[i], 10, 3, 255)]
    IN  IF Len(toks) = 4 /\ \A i \in 1..4 : vals[i] >= 0 THEN vals ELSE <<-1>>

\* the 16-bit groups the colon-separated tokens spell; the last token may be
\* an embedded dotted quad, which gives two groups; a malformed token gives -1
RECURSIVE ParseGroups(_)
ParseGroups(toks) ==
    IF toks = <<>> THEN <<>>
    ELSE IF Len(toks) = 1 /\ Contains(toks[1], ".")
    THEN LET b == ParseQuad(toks[1])
         IN  IF Len(b) = 4 THEN <<256 * b[1] + b[2], 256 * b[3] + b[4]>>
             ELSE <<-1>>
    ELSE <<ParseNumber(Head(toks), 16, 4, 65535)>> \o ParseGroups(Tail(toks))

\* the index of the first "::" of s, 0 when there is none
FindDouble(s) ==
    IF \E i \in 1..(Len(s) - 1) : s[i] = ":" /\ s[i + 1] = ":"
    THEN CHOOSE i \in 1..(Len(s) - 1) :
            /\ s[i] = ":" /\ s[i + 1] = ":"
            /\ \A j \in 1..(i - 1) : ~(s[j] = ":" /\ s[j + 1] = ":")
    ELSE 0

GroupsToBytes(g) ==
    [i \in 1..AddrBytes |->
        IF i % 2 = 1 THEN g[(i + 1) \div 2] \div 256 ELSE g[i \div 2] % 256]

ParseError == [ok |-> FALSE, in6 |-> Zeros(AddrBytes)]

Parsed(a) == [ok |-> TRUE, in6 |-> a]

ParseColonHex(s) ==
    LET d == FindDouble(s)
    IN  IF d = 0
        THEN LET g == ParseGroups(Split(s, ":", <<>>))
             IN  IF Len(g) = 8 /\ \A i \in 1..8 : g[i] >= 0
                 THEN Parsed(GroupsToBytes(g)) ELSE ParseError
        ELSE LET left  == SubSeq(s, 1, d - 1)
                 right == SubSeq(s, d + 2, Len(s))
                 l == IF left = <<>> THEN <<>>
                      ELSE ParseGroups(Split(left, ":", <<>>))
                 r == IF right = <<>> THEN <<>>
                      ELSE ParseGroups(Split(right, ":", <<>>))
             IN  IF /\ FindDouble(right) = 0
                    /\ ~Contains(left, ".")
                    /\ Len(l) + Len(r) <= 7
                    /\ \A i \in 1..Len(l) : l[i] >= 0
                    /\ \A i \in 1..Len(r) : r[i] >= 0
                 THEN Parsed(GroupsToBytes(l \o Zeros(8 - Len(l) - Len(r)) \o r))
                 ELSE ParseError

ParseDotted(s) ==
    LET b == ParseQuad(s)
    IN  IF Len(b) = 4 THEN Parsed(v4_mapped_prefix \o b) ELSE ParseError

\* IPAddr::Init(s): dotted IPv4 text or colon-hex IPv6 text
Init_(s) ==
    IF Contains(s, ":") THEN ParseColonHex(s) ELSE ParseDotted(s)

---------------------------------------------------------------------------
(* IPPrefix.                                                               *)

\* IPPrefix(const IPAddr& addr, uint8_t length): the length goes to the
\* 128-bit scale and the stored address is masked with it
IPPrefixCtor(a, len) ==
    LET l128 == IF family(a) = "IPv4" THEN len + 96 ELSE len
    IN  [prefix |-> Mask(IPAddrCopy(a), l128), length |-> l128]

\* IPPrefix(const IPPrefix& other)
IPPrefixCopy(other) == [prefix |-> IPAddrCopy(other.prefix), length |-> other.length]

\* Prefix()
Prefix(n) == n.prefix

\* Length() without the offset of an IPv4 prefix
LengthNoOffset(n) == n.length

\* Length(): uint8_t, length - 96 for an IPv4 prefix
Length(n) ==
    IF family(n.prefix) = "IPv4" THEN (n.length - 96) % 256 ELSE n.length

\* LengthIPv6()
LengthIPv6(n) == n.length

\* IPPrefix::operator=: prefix = other.Prefix(); length = other.Length()
IPPrefixAssign(self, other) ==
    LET newPrefix == IPAddrAssign(self.prefix, Prefix(other))
    IN  [prefix |-> newPrefix, length |-> Length(other)]

\* operator== comparing the addresses alone
PrefixEqAddrOnly(net1, net2) == AddrEq(Prefix(net1), Prefix(net2))

\* operator==(IPPrefix, IPPrefix)
PrefixEq(net1, net2) ==
    AddrEq(Prefix(net1), Prefix(net2)) /\ Length(net1) = Length(net2)

\* operator< without the comparison of the lengths of equal addresses
PrefixLessNoTie(net1, net2) == AddrLess(Prefix(net1), Prefix(net2))

\* operator<(IPPrefix, IPPrefix)
PrefixLess(net1, net2) ==
    IF AddrLess(Prefix(net1), Prefix(net2)) THEN TRUE
    ELSE IF AddrEq(Prefix(net1), Prefix(net2)) THEN Length(net1) < Length(net2)
    ELSE FALSE

---------------------------------------------------------------------------
(* Inputs.                                                                 *)

\* 4-byte buffers, as they lie in memory
V4Buffers ==
    << <<255, 255, 255, 255>>,      \* 255.255.255.255
       <<10, 255, 255, 255>>,       \* 10.255.255.255
       <<192, 168, 1, 2>>,          \* 192.168.1.2
       <<10, 0, 0, 0>>,             \* 10.0.0.0
       <<127, 0, 0, 5>>,            \* 127.0.0.5
       <<224, 0, 0, 1>> >>          \* 224.0.0.1

\* 16-byte buffers, as they lie in memory
V6Buffers ==
    << Zeros(10) \o <<255, 255, 255, 255, 255, 255>>,       \* ::ffff:255.255.255.255
       <<0, 1, 0, 0, 0, 0, 0, 2, 0, 0, 0, 0, 0, 3, 0, 4>>,  \* 1:0:0:2:0:0:3:4
       Zeros(10) \o <<255, 254, 255, 255, 255, 255>>,       \* ::fffe:ffff:ffff
       <<32, 1, 13, 184>> \o Zeros(8) \o <<0, 66, 131, 41>>,\* 2001:db8::42:8329
       Zeros(15) \o <<1>>,                                  \* ::1
       <<253, 0>> \o Zeros(14),                             \* fd00::
       Zeros(9) \o <<1, 255, 255, 10, 0, 0, 0>>,            \* ::1:ffff:a00:0
       <<255, 2>> \o Zeros(13) \o <<1>> >>                  \* ff02::1

V4Inputs == {V4Buffers[i] : i \in 1..NumV4Inputs}
V6Inputs == {V6Buffers[i] : i \in 1..NumV6Inputs}

ByteOrder == {"Host", "Network"}

\* the bit counts given to Mask
MaskArgList == <<107, 88, 0, 128, 96, 13, 64, 112, 127, 1, 95, 8>>
MaskArgs == {MaskArgList[i] : i \in 1..NumMaskArgs}

\* string literals: two well-formed, one with two "::", one with an octet
\* out of range
StringInputs ==
    { <<"1", "2", "7", ".", "0", ".", "0", ".", "5">>,
      <<":", ":", "2">>,
      <<"1", ":", ":", "2", ":", ":", "3">>,
      <<"2", "5", "6", ".", "1", ".", "1", ".", "1">> }

\* the addresses the constructors give from the buffers in network order
InputAddrs ==
    {IPAddrIn4(b) : b \in V4Inputs} \cup {IPAddrCopy(b) : b \in V6Inputs}
        \cup {IPAddrDefault}

\* the name of IPAddr(Family, const uint32_t*, ByteOrder) in op
BytesCtorName(fam, order) ==
    IF fam = "IPv4"
    THEN (IF order = "Host" THEN "IPAddr(IPv4,bytes,Host)"
          ELSE "IPAddr(IPv4,bytes,Network)")
    ELSE (IF order = "Host" THEN "IPAddr(IPv6,bytes,Host)"
          ELSE "IPAddr(IPv6,bytes,Network)")

IPv6BytesCtors == {BytesCtorName("IPv6", o) : o \in ByteOrder}

\* the names of the three compared IPAddr objects and of the two IPPrefix
\* objects
Regs == {"x", "y", "z"}
PrefixRegs == {"p", "q"}

\* the addresses given to the IPPrefix constructor
PrefixAddrList ==
    << IPAddrIn4(<<10, 255, 255, 255>>),                      \* 10.255.255.255
       <<32, 1, 13, 184>> \o Zeros(8) \o <<0, 66, 131, 41>>,  \* 2001:db8::42:8329
       IPAddrIn4(<<10, 0, 0, 0>>),                            \* 10.0.0.0
       <<32, 1, 13, 184>> \o Zeros(4) \o <<255, 255, 255, 255, 0, 0, 0, 1>>,
                                                  \* 2001:db8:0:0:ffff:ffff:0:1
       IPAddrIn4(<<192, 168, 1, 2>>) >>                       \* 192.168.1.2

\* the family-relative lengths given to the IPPrefix constructor
Lens4 == <<8, 13, 32, 0, 24>>
Lens6 == <<64, 100, 128, 0, 13>>

PrefixAddrs == {PrefixAddrList[i] : i \in 1..NumPrefixAddrs}

LensFor(a) ==
    IF family(a) = "IPv4" THEN {Lens4[i] : i \in 1..NumLens}
    ELSE {Lens6[i] : i \in 1..NumLens}

\* the valid family-relative lengths: 0..32 for IPv4, 0..128 for IPv6
ValidLens(a) == IF family(a) = "IPv4" THEN 0..32 ELSE 0..128

---------------------------------------------------------------------------
(* The state after construction: default addresses, and the prefix ::/0.   *)

Init ==
    /\ addr = IPAddrDefault
    /\ prev = <<>>
    /\ op = "IPAddr()"
    /\ arg = 0
    /\ text = <<>>
    /\ objs = [r \in Regs |-> IPAddrDefault]
    /\ pfx = [r \in PrefixRegs |-> IPPrefixCtor(IPAddrDefault, 0)]
    /\ pop = [op |-> "IPPrefix(addr,len)", dst |-> "q", from |-> "-",
              a |-> IPAddrDefault, len |-> 0]

---------------------------------------------------------------------------
(* Operations on one IPAddr object.                                        *)

\* IPAddr()
Default ==
    /\ addr' = IPAddrDefault
    /\ prev' = <<>>
    /\ op' = "IPAddr()"
    /\ arg' = 0
    /\ text' = <<>>
    /\ UNCHANGED <<objs, pfx, pop>>

\* IPAddr(const in4_addr&)
ConstructIn4 ==
    \E b \in V4Inputs :
        /\ addr' = IPAddrIn4(b)
        /\ prev' = b
        /\ op' = "IPAddr(in4)"
        /\ arg' = 0
        /\ text' = <<>>
        /\ UNCHANGED <<objs, pfx, pop>>

\* IPAddr(Family, const uint32_t*, ByteOrder)
ConstructBytes ==
    \E fam \in {"IPv4", "IPv6"}, order \in ByteOrder :
        \E b \in (IF fam = "IPv4" THEN V4Inputs ELSE V6Inputs) :
            /\ addr' = IPAddrBytes(fam, b, order)
            /\ prev' = b
            /\ op' = BytesCtorName(fam, order)
            /\ arg' = 0
            /\ text' = <<>>
            /\ UNCHANGED <<objs, pfx, pop>>

\* IPAddr(const IPAddr& other): the copy is the object followed from here on
Copy ==
    /\ addr' = IPAddrCopy(addr)
    /\ prev' = addr
    /\ op' = "IPAddr(other)"
    /\ arg' = 0
    /\ text' = <<>>
    /\ UNCHANGED <<objs, pfx, pop>>

\* addr = other, for another object
Assign ==
    \E other \in InputAddrs :
        /\ addr' = IPAddrAssign(addr, other)
        /\ prev' = other
        /\ op' = "operator="
        /\ arg' = 0
        /\ text' = <<>>
        /\ UNCHANGED <<objs, pfx, pop>>

\* addr.Mask(n), the object mutated in place
MaskOp ==
    \E n \in MaskArgs :
        /\ addr' = Mask(addr, n)
        /\ prev' = addr
        /\ op' = "Mask"
        /\ arg' = n
        /\ text' = <<>>
        /\ UNCHANGED <<objs, pfx, pop>>

\* text = addr.AsString()
AsStringOp ==
    /\ text' = AsString(addr)
    /\ prev' = <<>>
    /\ op' = "AsString"
    /\ arg' = 0
    /\ UNCHANGED <<addr, objs, pfx, pop>>

\* IPAddr(text), from the string held or from a literal; a string that does
\* not parse gives a ParseError and no object
ConstructString ==
    \E s \in (IF text = <<>> THEN StringInputs ELSE {text}) :
        /\ text' = s
        /\ prev' = (IF op = "AsString" THEN addr ELSE <<>>)
        /\ arg' = 0
        /\ IF Init_(s).ok
           THEN /\ addr' = Init_(s).in6
                /\ op' = "IPAddr(s)"
           ELSE /\ addr' = addr
                /\ op' = "ParseError"
        /\ UNCHANGED <<objs, pfx, pop>>

Next ==
    \/ Default
    \/ ConstructIn4
    \/ ConstructBytes
    \/ Copy
    \/ Assign
    \/ MaskOp
    \/ AsStringOp
    \/ ConstructString

Spec == Init /\ [][Next]_vars

---------------------------------------------------------------------------
(* Three IPAddr objects, constructed, assigned and compared.               *)

OrderConstruct ==
    \E r \in Regs, a \in InputAddrs :
        /\ objs' = [objs EXCEPT ![r] = IPAddrCopy(a)]
        /\ UNCHANGED <<addr, prev, op, arg, text, pfx, pop>>

OrderAssign ==
    \E r \in Regs, s \in Regs :
        /\ objs' = [objs EXCEPT ![r] = IPAddrAssign(objs[r], objs[s])]
        /\ UNCHANGED <<addr, prev, op, arg, text, pfx, pop>>

OrderNext == OrderConstruct \/ OrderAssign

OrderSpec == Init /\ [][OrderNext]_vars

---------------------------------------------------------------------------
(* Two IPPrefix objects, constructed, copied and assigned.                 *)

\* dst is constructed: IPPrefix(a, len)
PrefixConstruct ==
    \E dst \in PrefixRegs, a \in PrefixAddrs :
        \E len \in LensFor(a) :
            /\ pfx' = [pfx EXCEPT ![dst] = IPPrefixCtor(a, len)]
            /\ pop' = [op |-> "IPPrefix(addr,len)", dst |-> dst, from |-> "-",
                       a |-> a, len |-> len]
            /\ UNCHANGED <<addr, prev, op, arg, text, objs>>

\* dst is constructed as a copy of the other object
PrefixCopy ==
    \E dst \in PrefixRegs, from \in PrefixRegs :
        /\ dst # from
        /\ pfx' = [pfx EXCEPT ![dst] = IPPrefixCopy(pfx[from])]
        /\ pop' = [op |-> "IPPrefix(other)", dst |-> dst, from |-> from,
                   a |-> pfx[from].prefix, len |-> pfx[from].length]
        /\ UNCHANGED <<addr, prev, op, arg, text, objs>>

\* dst = from; pop keeps the source as it was before the assignment
PrefixAssign ==
    \E dst \in PrefixRegs, from \in PrefixRegs :
        /\ pfx' = [pfx EXCEPT ![dst] = IPPrefixAssign(pfx[dst], pfx[from])]
        /\ pop' = [op |-> "operator=", dst |-> dst, from |-> from,
                   a |-> pfx[from].prefix, len |-> pfx[from].length]
        /\ UNCHANGED <<addr, prev, op, arg, text, objs>>

PrefixNext == PrefixConstruct \/ PrefixCopy \/ PrefixAssign

PrefixSpec == Init /\ [][PrefixNext]_vars

---------------------------------------------------------------------------
(* Properties of IPAddr, checked under Spec and OrderSpec.                 *)

AllZero == Zeros(AddrBytes)

\* ::ffff:255.255.255.255
MappedBroadcast == v4_mapped_prefix \o <<255, 255, 255, 255>>

\* C4: operator< and operator== on IPAddr are a strict total order over the
\* 16 bytes: of a<b, a==b, b<a exactly one holds, a<b and b<c give a<c,
\* a==b iff all 16 bytes are equal, and a<b iff at the first byte where they
\* differ a's byte is the smaller one.
C4_AddrTotalOrder ==
    /\ \A r \in Regs, s \in Regs :
         LET a == objs[r]
             b == objs[s]
         IN  /\ (AddrLess(a, b) /\ ~AddrEq(a, b) /\ ~AddrLess(b, a))
                  \/ (~AddrLess(a, b) /\ AddrEq(a, b) /\ ~AddrLess(b, a))
                  \/ (~AddrLess(a, b) /\ ~AddrEq(a, b) /\ AddrLess(b, a))
             /\ AddrEq(a, b) <=> (\A i \in 1..16 : a[i] = b[i])
             /\ AddrLess(a, b) <=>
                  (\E k \in 1..16 :
                      /\ \A j \in 1..(k - 1) : a[j] = b[j]
                      /\ a[k] < b[k])
    /\ \A r \in Regs, s \in Regs, t \in Regs :
         (AddrLess(objs[r], objs[s]) /\ AddrLess(objs[s], objs[t]))
            => AddrLess(objs[r], objs[t])

\* three objects in ascending order, the first two IPv4 addresses that
\* differ only in their last four bytes, the third an IPv6 address
C4_Witness ==
    /\ AddrLess(objs["x"], objs["y"])
    /\ AddrLess(objs["y"], objs["z"])
    /\ family(objs["x"]) = "IPv4"
    /\ family(objs["y"]) = "IPv4"
    /\ family(objs["z"]) = "IPv6"

\* C6, as claimed: IsBroadcast() is true for an IPv4 address iff its last 32
\* bits are all ones, and false for every address built by the constructor
\* given the family tag IPv6, the 16 bytes of ::ffff:255.255.255.255 included.
C6_AsClaimed ==
    /\ family(addr) = "IPv4" =>
         (IsBroadcast(addr) <=> \A i \in 96..127 : Bit(addr, i) = 1)
    /\ op \in IPv6BytesCtors => ~IsBroadcast(addr)

\* C6, amended: IsBroadcast() is true exactly of the address whose 128 bits
\* are those of ::ffff:255.255.255.255, however it was constructed: false for
\* every address whose family() is IPv6, and true for the object the
\* constructor given the family tag IPv6 builds from those 16 bytes in
\* network order, whose family() is IPv4.
C6_BroadcastByBytes ==
    /\ IsBroadcast(addr) <=>
         (\A i \in 0..127 : Bit(addr, i) = (IF i < 80 THEN 0 ELSE 1))
    /\ family(addr) = "IPv6" => ~IsBroadcast(addr)
    /\ (op = "IPAddr(IPv6,bytes,Network)" /\ prev = MappedBroadcast)
         => (family(addr) = "IPv4" /\ IsBroadcast(addr))

\* the IPv6 constructor was given the bytes of ::ffff:255.255.255.255
C6_Witness ==
    /\ op = "IPAddr(IPv6,bytes,Network)"
    /\ prev = MappedBroadcast
    /\ IsBroadcast(addr)

\* what Mask(n) makes of the 128 bits of a, bit by bit
MaskedBitwise(a, n, m) ==
    \A i \in 0..127 : Bit(m, i) = (IF i < n THEN Bit(a, i) ELSE 0)

\* C7: Mask(n), 0 <= n <= 128, leaves the first n bits unchanged and zeroes
\* every later bit, whatever the family; Mask(128) changes nothing, Mask(0)
\* gives the all-zero address, and a second Mask(n) changes nothing.  Of the
\* object Mask was called on, and of every n in 0..128 for every address
\* reached.
C7_MaskKeepsTopBits ==
    /\ op = "Mask" =>
         /\ MaskedBitwise(prev, arg, addr)
         /\ arg = 128 => addr = prev
         /\ arg = 0 => addr = AllZero
         /\ Mask(addr, arg) = addr
    /\ \A n \in 0..128 :
         LET m == Mask(addr, n)
         IN  /\ MaskedBitwise(addr, n, m)
             /\ Mask(m, n) = m
    /\ Mask(addr, 128) = addr
    /\ Mask(addr, 0) = AllZero

\* 192.168.1.2 masked with 96 + 11: the second octet keeps its top 3 bits
C7_Witness ==
    /\ op = "Mask"
    /\ arg = 107
    /\ prev = v4_mapped_prefix \o <<192, 168, 1, 2>>
    /\ addr = v4_mapped_prefix \o <<192, 160, 0, 0>>

\* C8: parsing the text AsString() gives for an address yields that address:
\* of every address reached, and of the object constructed from the string
\* AsString() returned.
C8_RoundTrip ==
    /\ Init_(AsString(addr)).ok
    /\ AddrEq(Init_(AsString(addr)).in6, addr)
    /\ (op = "IPAddr(s)" /\ prev # <<>>) => AddrEq(addr, prev)
    /\ op = "ParseError" => prev = <<>>

\* 1:0:0:2:0:0:3:4, two runs of two zero groups, went through "1::2:0:0:3:4"
C8_Witness ==
    /\ op = "IPAddr(s)"
    /\ prev = <<0, 1, 0, 0, 0, 0, 0, 2, 0, 0, 0, 0, 0, 3, 0, 4>>
    /\ text = <<"1", ":", ":", "2", ":", "0", ":", "0", ":", "3", ":", "4">>
    /\ addr = prev

\* C10: family() is IPv4 exactly when the first 12 bytes are ten zero bytes
\* and two 0xff bytes; a copy and an assignment have the family of their
\* source; Mask(n) with 96 <= n keeps the family; Mask(n) of an IPv6 address
\* is an IPv6 address; Mask(n) with n < 96 of an IPv4 address is an IPv6
\* address.  Of the object Mask was called on, and of every n in 0..128 for
\* every address reached.
C10_FamilyStability ==
    /\ family(addr) = "IPv4" <=>
         ((\A i \in 1..10 : addr[i] = 0) /\ addr[11] = 255 /\ addr[12] = 255)
    /\ op \in {"IPAddr(other)", "operator="} => family(addr) = family(prev)
    /\ (op = "Mask" /\ arg >= 96) => family(addr) = family(prev)
    /\ (op = "Mask" /\ family(prev) = "IPv6") => family(addr) = "IPv6"
    /\ (op = "Mask" /\ arg < 96 /\ family(prev) = "IPv4") => family(addr) = "IPv6"
    /\ \A n \in 0..128 :
         LET m == Mask(addr, n)
         IN  /\ n >= 96 => family(m) = family(addr)
             /\ family(addr) = "IPv6" => family(m) = "IPv6"
             /\ (n < 96 /\ family(addr) = "IPv4") => family(m) = "IPv6"

\* a mask that cut into the mapped prefix: the first ten bytes are still
\* zero, the eleventh is still 0xff, and the address is an IPv6 address
C10_Witness ==
    /\ op = "Mask"
    /\ arg = 88
    /\ family(prev) = "IPv4"
    /\ addr = Zeros(10) \o <<255>> \o Zeros(5)
    /\ family(addr) = "IPv6"

---------------------------------------------------------------------------
(* Properties of IPPrefix, checked under PrefixSpec.                       *)

\* a and b have the same first n bits
AgreeOn(a, b, n) == \A i \in 0..(n - 1) : Bit(a, i) = Bit(b, i)

\* a family-relative length on the 128-bit scale
Scale128(a, len) == IF family(a) = "IPv4" THEN len + 96 ELSE len

\* the prefixes the constructor gives from the inputs
ConstructedPrefixes ==
    {IPPrefixCtor(al[1], al[2]) :
        al \in {x \in PrefixAddrs \X (0..128) : x[2] \in LensFor(x[1])}}
      \cup {IPPrefixCtor(IPAddrDefault, 0)}

\* what assignments make of a set of prefixes
RECURSIVE AssignClosure(_)
AssignClosure(S) ==
    LET T == S \cup {IPPrefixAssign(n, n) : n \in S}
    IN  IF T = S THEN S ELSE AssignClosure(T)

\* every value an IPPrefix object takes
PrefixValues == AssignClosure(ConstructedPrefixes)

\* C1, as claimed: in every state the stored address of an IPPrefix has every
\* bit beyond LengthIPv6() equal to zero.
C1_MaskedBeyondLength ==
    \A r \in PrefixRegs :
        \A i \in 0..127 :
            i >= LengthIPv6(pfx[r]) => Bit(Prefix(pfx[r]), i) = 0

\* C2, as claimed: after p = q, p == q, and Prefix(), Length() and
\* LengthIPv6() of p are those of q.
C2_AssignCopies ==
    (pop.op = "operator=" /\ pop.dst # pop.from) =>
        /\ PrefixEq(pfx[pop.dst], pfx[pop.from])
        /\ Prefix(pfx[pop.dst]) = Prefix(pfx[pop.from])
        /\ Length(pfx[pop.dst]) = Length(pfx[pop.from])
        /\ LengthIPv6(pfx[pop.dst]) = LengthIPv6(pfx[pop.from])

\* C3: two prefixes constructed with the same family-relative length from
\* addresses of one family that agree in the bits up to that length are
\* equal: of the prefix constructed last against every input address, and of
\* every valid length; and two prefixes are equal only if their addresses are
\* the same 16 bytes and their Length() is the same.
C3_EqualityNormalized ==
    /\ pop.op = "IPPrefix(addr,len)" =>
         \A b \in PrefixAddrs :
            (family(b) = family(pop.a)
               /\ AgreeOn(pop.a, b, Scale128(pop.a, pop.len)))
              => PrefixEq(pfx[pop.dst], IPPrefixCtor(b, pop.len))
    /\ pop.op = "IPPrefix(addr,len)" =>
         \A b \in PrefixAddrs, len \in ValidLens(pop.a) :
            (family(b) = family(pop.a) /\ AgreeOn(pop.a, b, Scale128(pop.a, len)))
              => PrefixEq(IPPrefixCtor(pop.a, len), IPPrefixCtor(b, len))
    /\ PrefixEq(pfx["p"], pfx["q"]) <=>
         /\ \A i \in 1..16 : Prefix(pfx["p"])[i] = Prefix(pfx["q"])[i]
         /\ Length(pfx["p"]) = Length(pfx["q"])

\* q was constructed from 10.255.255.255 and 8, p holds 10.0.0.0/8, and they
\* are equal
C3_Witness ==
    /\ pop.op = "IPPrefix(addr,len)"
    /\ pop.dst = "q"
    /\ pop.a = IPAddrIn4(<<10, 255, 255, 255>>)
    /\ pop.len = 8
    /\ pfx["p"] = IPPrefixCtor(IPAddrIn4(<<10, 0, 0, 0>>), 8)
    /\ PrefixEq(pfx["p"], pfx["q"])

\* C5: a prefix constructed from an address and a valid family-relative
\* length has that length as Length(), and LengthIPv6() is Length() + 96 when
\* the stored address is IPv4 and Length() when it is IPv6: of the prefix
\* constructed last, and of every valid length for its address.
C5_LengthScales ==
    pop.op = "IPPrefix(addr,len)" =>
        /\ Length(pfx[pop.dst]) = pop.len
        /\ LengthIPv6(pfx[pop.dst]) =
             (IF family(Prefix(pfx[pop.dst])) = "IPv4"
              THEN Length(pfx[pop.dst]) + 96 ELSE Length(pfx[pop.dst]))
        /\ \A len \in ValidLens(pop.a) :
             LET n == IPPrefixCtor(pop.a, len)
             IN  /\ Length(n) = len
                 /\ LengthIPv6(n) =
                      (IF family(Prefix(n)) = "IPv4" THEN len + 96 ELSE len)

\* 10.255.255.255/13: Length() is 13 and LengthIPv6() is 109
C5_Witness ==
    /\ pop.op = "IPPrefix(addr,len)"
    /\ pop.a = IPAddrIn4(<<10, 255, 255, 255>>)
    /\ pop.len = 13
    /\ Length(pfx[pop.dst]) = 13
    /\ LengthIPv6(pfx[pop.dst]) = 109

\* C9: operator< on IPPrefix is a strict total order consistent with
\* operator== over every value an IPPrefix object takes: of p<q, p==q, q<p
\* exactly one holds, p<q and q<r give p<r, and p<q holds iff
\* p.Prefix() < q.Prefix(), or the addresses are equal and
\* p.Length() < q.Length().
C9_PrefixTotalOrder ==
    /\ \A r \in PrefixRegs : pfx[r] \in PrefixValues
    /\ \A r \in PrefixRegs, s \in PrefixRegs :
         LET m == pfx[r]
             n == pfx[s]
         IN  /\ (PrefixLess(m, n) /\ ~PrefixEq(m, n) /\ ~PrefixLess(n, m))
                  \/ (~PrefixLess(m, n) /\ PrefixEq(m, n) /\ ~PrefixLess(n, m))
                  \/ (~PrefixLess(m, n) /\ ~PrefixEq(m, n) /\ PrefixLess(n, m))
             /\ PrefixLess(m, n) <=>
                  \/ AddrLess(Prefix(m), Prefix(n))
                  \/ (\A i \in 1..16 : Prefix(m)[i] = Prefix(n)[i])
                        /\ Length(m) < Length(n)
             /\ PrefixLess(m, n) =>
                  \A o \in PrefixValues :
                     /\ PrefixLess(n, o) => PrefixLess(m, o)
                     /\ PrefixLess(o, m) => PrefixLess(o, n)
                     /\ PrefixLess(o, n) \/ PrefixLess(m, o) \/ PrefixEq(m, o)
                           \/ PrefixEq(o, n)

\* p was assigned to, p and q store the same address, and p < q by Length()
C9_Witness ==
    /\ pop.op = "operator="
    /\ pop.dst = "p"
    /\ AddrEq(Prefix(pfx["p"]), Prefix(pfx["q"]))
    /\ PrefixLess(pfx["p"], pfx["q"])
    /\ \E o \in PrefixValues :
         PrefixLess(pfx["q"], o) /\ PrefixLess(pfx["p"], o)

=============================================================================
